---- MODULE Spec2Model ----
(***************************************************************************)
(* State-machine models of the design-pattern examples of the repository:  *)
(* the order State pattern, the Proxy/CDN cache, the Command calculators,  *)
(* the Memento editors and the Observer message broker.  Every example is  *)
(* an independent program, so every example has a specification of its     *)
(* own (SpecOrder, SpecProxy, ...) over its own variables; the variables   *)
(* of the other examples stay as constructed.                              *)
(***************************************************************************)
EXTENDS Integers, Sequences, FiniteSets, TLC

VARIABLES
    currentState,   \* Order.currentState of every constructed order
    orderLast,      \* the last call made on an order: op, order, state before
    orderOut,       \* the console lines the last call printed
    cache,          \* ProxyServer.cache: the keys it owns and their content
    cdnCalls,       \* how often the Cdn served each (resource type, file name)
    requested,      \* the (resource type, file name) pairs asked of the proxy
    proxyLast,      \* the last get call: its arguments, result and log line
    invoker,        \* which invoker the client built: Calculator or CommandStack
    state,          \* Calculator.state / CommandStack.state
    Commands,       \* Calculator.Commands / CommandStack.Commands
    initialState,   \* the state the invoker was constructed with
    before,         \* the state before each executed, not yet undone command
    plainRun,       \* so far: only Add and Subtract commands were executed
    safeRun,        \* so far: every value and every state was a safe integer
    cmdLast,        \* the last client statement: its call, and the error thrown
    content,        \* TextEditor.content
    held,           \* the mementos save() has returned, each with its content
    heldFrom,       \* what the editor held when each of them was saved
    memLast,        \* the last call on the editor
    caretaker,      \* which caretaker the client built
    editor,         \* the content of the editor the caretaker works with
    mementos,       \* EditorHistory.mementos / HistoryManager.mementos / Historyy.stack
    captured,       \* the editor contents backed up and not yet undone
    histLast,       \* the last call on the caretaker
    topics,         \* MessageBroker.topics: the topics it has, each with its set
    delivered,      \* the update(message) calls the last publish made, by subscriber
    subscribed,     \* the (topic, subscriber) pairs subscribed and not unsubscribed
    brokerLast,     \* the last call on the broker
    unsubscribedFrom, \* the (topic, subscriber) pairs unsubscribed and not
                    \* subscribed again since
    singletonInstance, \* Singleton.singletonInstance: the static field
    connectionCount, \* connectionCount of every Singleton constructed so far
    refs,           \* the references the client got from getInstance()
    established,    \* how many establishConnection() calls were made so far
    singLast,       \* the last call on the Singleton class or an instance
    candyLast,      \* the last getCandy call: version, argument, outcome
    candyOut,       \* the console lines of the candies sold so far
    invocations,    \* how often each demo of the entry list was invoked
    demoLast,       \* the last demo invoked: how it started, what it printed
    firstRun        \* how each demo started and what it printed the first time

orderVars == <<currentState, orderLast, orderOut>>
proxyVars == <<cache, cdnCalls, requested, proxyLast>>
commandVars ==
    <<invoker, state, Commands, initialState, before, plainRun, safeRun, cmdLast>>
mementoVars == <<content, held, heldFrom, memLast>>
historyVars == <<caretaker, editor, mementos, captured, histLast>>
brokerVars == <<topics, delivered, subscribed, brokerLast, unsubscribedFrom>>
singletonVars ==
    <<singletonInstance, connectionCount, refs, established, singLast>>
candyVars == <<candyLast, candyOut>>
demoVars == <<invocations, demoLast, firstRun>>

vars ==
    <<orderVars, proxyVars, commandVars, mementoVars, historyVars, brokerVars,
      singletonVars, candyVars, demoVars>>

\* What a step of one example leaves alone: the other examples.
notOrderVars ==
    <<proxyVars, commandVars, mementoVars, historyVars, brokerVars,
      singletonVars, candyVars, demoVars>>
notProxyVars ==
    <<orderVars, commandVars, mementoVars, historyVars, brokerVars,
      singletonVars, candyVars, demoVars>>
notCommandVars ==
    <<orderVars, proxyVars, mementoVars, historyVars, brokerVars,
      singletonVars, candyVars, demoVars>>
notMementoVars ==
    <<orderVars, proxyVars, commandVars, historyVars, brokerVars,
      singletonVars, candyVars, demoVars>>
notHistoryVars ==
    <<orderVars, proxyVars, commandVars, mementoVars, brokerVars,
      singletonVars, candyVars, demoVars>>
notBrokerVars ==
    <<orderVars, proxyVars, commandVars, mementoVars, historyVars,
      singletonVars, candyVars, demoVars>>
notSingletonVars ==
    <<orderVars, proxyVars, commandVars, mementoVars, historyVars, brokerVars,
      candyVars, demoVars>>
notCandyVars ==
    <<orderVars, proxyVars, commandVars, mementoVars, historyVars, brokerVars,
      singletonVars, demoVars>>
\* The fields of the examples whose objects live in one demo invocation.
notDemoVars ==
    <<orderVars, proxyVars, commandVars, mementoVars, historyVars, brokerVars,
      candyVars>>

(***************************************************************************)
(* behavioralPatterns/statePattern.ts                                      *)
(***************************************************************************)

\* How many Order objects the client constructs.
NumOrders == 3

Orders == 1 .. NumOrders

\* An order the client has not constructed yet.
NoOrder == "none"

OrderStates ==
    {"PaymentPendingState", "CancelledOrderState",
     "OrderShippedState", "OrderPreparedState"}

\* Order.setState: the new current state and the line it logs.
Order_setState(newState) ==
    [state |-> newState, out |-> <<"STATE CHANGED: " \o newState>>]

\* A state method that only logs: the current state stays.
Stay(cur, line) == [state |-> cur, out |-> <<line>>]

\* A state method that logs and then calls order.setState(state).
Move(line, newState) ==
    [state |-> Order_setState(newState).state,
     out |-> <<line>> \o Order_setState(newState).out]

PaymentPendingState_verifyPayment(cur) ==
    Move("SUCCESS: Payment verified! Order will be prepared.",
         "OrderPreparedState")

PaymentPendingState_cancelOrder(cur) ==
    Move("ERROR: Order cancelled by user.", "CancelledOrderState")

PaymentPendingState_shipOrder_Ships(cur) ==
    Move("SUCCESS: Order shipped to customer.", "OrderShippedState")

PaymentPendingState_shipOrder(cur) ==
    Stay(cur, "ACTION DENIED: Cannot ship the order. Please verify payment first.")

CancelledOrderState_verifyPayment_Prepares(cur) ==
    Move("SUCCESS: Payment verified! Order will be prepared.",
         "OrderPreparedState")

CancelledOrderState_verifyPayment(cur) ==
    Stay(cur, "ACTION DENIED: Cannot verify payment. Order is cancelled.")

CancelledOrderState_cancelOrder(cur) ==
    Stay(cur, "INFO: Order has already been cancelled.")

CancelledOrderState_shipOrder(cur) ==
    Stay(cur, "ACTION DENIED: Cannot ship. Order is cancelled.")

OrderPreparedState_verifyPayment(cur) ==
    Stay(cur, "INFO: Payment was already verified.")

OrderPreparedState_cancelOrder(cur) ==
    Move("ERROR: Order cancelled. Changes will be applied.",
         "CancelledOrderState")

OrderPreparedState_shipOrder(cur) ==
    Move("SUCCESS: Order shipped to customer.", "OrderShippedState")

OrderShippedState_verifyPayment(cur) ==
    Stay(cur, "INFO: Payment already verified. Order is shipped.")

OrderShippedState_cancelOrder_Cancels(cur) ==
    Move("ERROR: Order cancelled. Changes will be applied.",
         "CancelledOrderState")

OrderShippedState_cancelOrder(cur) ==
    Stay(cur, "ACTION DENIED: Cannot cancel. Order is already shipped.")

OrderShippedState_shipOrder(cur) ==
    Stay(cur, "INFO: Order has already been shipped.")

\* Order.verifyPayment: this.currentState.verifyPayment(), dispatched on the
\* class of the current state object.
Order_verifyPayment(cur) ==
    CASE cur = "PaymentPendingState" -> PaymentPendingState_verifyPayment(cur)
      [] cur = "CancelledOrderState" -> CancelledOrderState_verifyPayment(cur)
      [] cur = "OrderPreparedState"  -> OrderPreparedState_verifyPayment(cur)
      [] cur = "OrderShippedState"   -> OrderShippedState_verifyPayment(cur)

Order_cancelOrder(cur) ==
    CASE cur = "PaymentPendingState" -> PaymentPendingState_cancelOrder(cur)
      [] cur = "CancelledOrderState" -> CancelledOrderState_cancelOrder(cur)
      [] cur = "OrderPreparedState"  -> OrderPreparedState_cancelOrder(cur)
      [] cur = "OrderShippedState"   -> OrderShippedState_cancelOrder(cur)

Order_shipOrder(cur) ==
    CASE cur = "PaymentPendingState" -> PaymentPendingState_shipOrder(cur)
      [] cur = "CancelledOrderState" -> CancelledOrderState_shipOrder(cur)
      [] cur = "OrderPreparedState"  -> OrderPreparedState_shipOrder(cur)
      [] cur = "OrderShippedState"   -> OrderShippedState_shipOrder(cur)

\* new Order(): the four state objects are built and the current state is
\* the payment-pending one.
Order_constructor == "PaymentPendingState"

OrderInit ==
    /\ currentState = [o \in Orders |-> NoOrder]
    /\ orderLast = [op |-> "none", order |-> 0, before |-> NoOrder]
    /\ orderOut = <<>>

NewOrder(o) ==
    /\ currentState[o] = NoOrder
    /\ currentState' = [currentState EXCEPT ![o] = Order_constructor]
    /\ orderLast' = [op |-> "new", order |-> o, before |-> NoOrder]
    /\ orderOut' = <<>>
    /\ UNCHANGED notOrderVars

OrderCall(o, op, res) ==
    /\ currentState[o] # NoOrder
    /\ currentState' = [currentState EXCEPT ![o] = res.state]
    /\ orderLast' = [op |-> op, order |-> o, before |-> currentState[o]]
    /\ orderOut' = res.out
    /\ UNCHANGED notOrderVars

VerifyPayment(o) ==
    OrderCall(o, "verifyPayment", Order_verifyPayment(currentState[o]))

CancelOrder(o) ==
    OrderCall(o, "cancelOrder", Order_cancelOrder(currentState[o]))

ShipOrder(o) ==
    OrderCall(o, "shipOrder", Order_shipOrder(currentState[o]))

OrderNext ==
    \E o \in Orders :
        \/ NewOrder(o)
        \/ VerifyPayment(o)
        \/ CancelOrder(o)
        \/ ShipOrder(o)

(***************************************************************************)
(* structuralPatterns/proxyPattern.ts                                      *)
(*                                                                         *)
(* A string is the sequence of its characters, so that building a cache    *)
(* key or a content string is concatenation, as in the template literals.  *)
(* The fixed text of a content string is kept as one element.              *)
(***************************************************************************)

\* The file names the client asks for: the empty name, a plain name, and
\* names that hold the key separator or a whole key of another type.
FileNames ==
    { <<>>, <<"a">>, <<":">>, <<"j", "s", ":", "a">> }

ResourceTypes == {"html", "css", "js"}

\* The value of a property an object does not have.
Undefined == [defined |-> FALSE, value |-> <<>>]

\* A string value.
Defined(str) == [defined |-> TRUE, value |-> str]

Cdn_retriveHtml(fileName) == <<"Sending HTML for file: ">> \o fileName

Cdn_retriveCss(fileName) == <<"Sending CSS for file: ">> \o fileName

Cdn_retriveJs(fileName) == <<"Sending JS for file: ">> \o fileName

HtmlKey(fileName) == <<"h", "t", "m", "l", ":">> \o fileName

CssKey_HtmlPrefix(fileName) == <<"h", "t", "m", "l", ":">> \o fileName

CssKey(fileName) == <<"c", "s", "s", ":">> \o fileName

JsKey(fileName) == <<"j", "s", ":">> \o fileName

\* this.cache[key]: the cache starts as {} and every key written holds a
\* ':' , so no key names a property inherited from Object.prototype.
CacheRead(c, key) ==
    IF key \in DOMAIN c THEN Defined(c[key]) ELSE Undefined

\* if (value): undefined and the empty string are falsy.
Truthy(v) == v.defined /\ v.value # <<>>

\* this.cache[key] = content
CacheWrite(c, key, str) ==
    [k \in DOMAIN c \cup {key} |-> IF k = key THEN str ELSE c[k]]

\* The body the three get methods share: look the key up, and on a miss ask
\* the Cdn and store what it sent.  cdn is the Cdn's answer, should it be
\* needed.
ProxyGet(c, key, cdn) ==
    IF Truthy(CacheRead(c, key))
    THEN [cache |-> c, content |-> CacheRead(c, key).value,
          cacheHit |-> TRUE, fetched |-> FALSE]
    ELSE [cache |-> CacheWrite(c, key, cdn), content |-> cdn,
          cacheHit |-> FALSE, fetched |-> TRUE]

ProxyGet_NoStore(c, key, cdn) ==
    IF Truthy(CacheRead(c, key))
    THEN [cache |-> c, content |-> CacheRead(c, key).value,
          cacheHit |-> TRUE, fetched |-> FALSE]
    ELSE [cache |-> c, content |-> cdn,
          cacheHit |-> FALSE, fetched |-> TRUE]

ProxyServer_getHtml(c, fileName) ==
    ProxyGet(c, HtmlKey(fileName), Cdn_retriveHtml(fileName))

ProxyServer_getCss(c, fileName) ==
    ProxyGet(c, CssKey(fileName), Cdn_retriveCss(fileName))

ProxyServer_getJs_NoStore(c, fileName) ==
    ProxyGet_NoStore(c, JsKey(fileName), Cdn_retriveJs(fileName))

ProxyServer_getJs(c, fileName) ==
    ProxyGet(c, JsKey(fileName), Cdn_retriveJs(fileName))

\* new ProxyServer(): a Cdn of its own and an empty cache.
ProxyInit ==
    /\ cache = <<>>
    /\ cdnCalls = [p \in ResourceTypes \X FileNames |-> 0]
    /\ requested = {}
    /\ proxyLast = [type |-> "none", fileName |-> <<>>, content |-> <<>>,
                    cacheHit |-> FALSE, seen |-> FALSE]

ProxyCall(type, fileName, res) ==
    /\ cache' = res.cache
    /\ cdnCalls' = IF res.fetched
                   THEN [cdnCalls EXCEPT ![<<type, fileName>>] = @ + 1]
                   ELSE cdnCalls
    /\ requested' = requested \cup {<<type, fileName>>}
    /\ proxyLast' = [type |-> type, fileName |-> fileName,
                     content |-> res.content, cacheHit |-> res.cacheHit,
                     seen |-> <<type, fileName>> \in requested]
    /\ UNCHANGED notProxyVars

GetHtml(fileName) ==
    ProxyCall("html", fileName, ProxyServer_getHtml(cache, fileName))

GetCss(fileName) ==
    ProxyCall("css", fileName, ProxyServer_getCss(cache, fileName))

GetJs(fileName) ==
    ProxyCall("js", fileName, ProxyServer_getJs(cache, fileName))

ProxyNext ==
    \E fileName \in FileNames :
        \/ GetHtml(fileName)
        \/ GetCss(fileName)
        \/ GetJs(fileName)

(***************************************************************************)
(* behavioralPatterns/commandPattern.ts (Calculator: a command holds its   *)
(* calculator and reads calculator.getState()) and the CommandStack of the *)
(* second command example (a command is handed the state).                 *)
(*                                                                         *)
(* A number is an IEEE-754 double.  The model keeps the integers of        *)
(* magnitude up to MaxAbs, on which + - * are exact, and the three values  *)
(* that are not finite; a quotient that is no integer is not modelled.     *)
(***************************************************************************)

\* The largest magnitude of a finite state the model follows.
MaxAbs == 40

\* The longest command history the model follows.
MaxCommands == 3

Num(n) == [kind |-> "finite", v |-> n]
PosInf == [kind |-> "Infinity", v |-> 1]
NegInf == [kind |-> "Infinity", v |-> -1]
NaN == [kind |-> "NaN", v |-> 0]
\* A finite quotient that is not an integer.
Fraction == [kind |-> "fraction", v |-> 0]

IsFinite(a) == a.kind = "finite"

\* Number.isSafeInteger: every finite number of the model is an integer far
\* below 2^53.
IsSafeInteger(a) == IsFinite(a)

Sign(n) == IF n < 0 THEN -1 ELSE 1

Abs(n) == IF n < 0 THEN -n ELSE n

Inf(sign) == IF sign < 0 THEN NegInf ELSE PosInf

NumNeg(a) ==
    CASE a.kind = "finite"   -> Num(-a.v)
      [] a.kind = "Infinity" -> Inf(-a.v)
      [] OTHER               -> a

\* a + b
NumAdd(a, b) ==
    CASE a.kind = "NaN" \/ b.kind = "NaN" -> NaN
      [] a.kind = "Infinity" /\ b.kind = "Infinity" ->
             IF a.v = b.v THEN a ELSE NaN
      [] a.kind = "Infinity" -> a
      [] b.kind = "Infinity" -> b
      [] OTHER -> Num(a.v + b.v)

\* a - b
NumSub(a, b) == NumAdd(a, NumNeg(b))

\* a * b
NumMul(a, b) ==
    CASE a.kind = "NaN" \/ b.kind = "NaN" -> NaN
      [] a.kind = "Infinity" /\ b.kind = "Infinity" -> Inf(a.v * b.v)
      [] a.kind = "Infinity" ->
             IF b.v = 0 THEN NaN ELSE Inf(a.v * Sign(b.v))
      [] b.kind = "Infinity" ->
             IF a.v = 0 THEN NaN ELSE Inf(b.v * Sign(a.v))
      [] OTHER -> Num(a.v * b.v)

\* a / b
NumDiv(a, b) ==
    CASE a.kind = "NaN" \/ b.kind = "NaN" -> NaN
      [] a.kind = "Infinity" /\ b.kind = "Infinity" -> NaN
      [] a.kind = "Infinity" -> Inf(a.v * Sign(b.v))
      [] b.kind = "Infinity" -> Num(0)
      [] b.v = 0 -> IF a.v = 0 THEN NaN ELSE Inf(Sign(a.v))
      [] a.v % Abs(b.v) = 0 -> Num(Sign(a.v) * Sign(b.v) * (Abs(a.v) \div Abs(b.v)))
      [] OTHER -> Fraction

\* The numbers the model follows as a state.
Followed(a) ==
    /\ a.kind # "fraction"
    /\ IsFinite(a) => Abs(a.v) <= MaxAbs

\* The values the client constructs commands with.
CommandValues == {Num(0), Num(2), PosInf}

\* The states the client constructs an invoker with.
InitialStates == {Num(0), Num(10)}

CommandOps == {"Add", "Subtract", "Multiply", "Divide"}

DivisionByZero == "Division by zero is not allowed."

NoError == ""

\* Add, Subtract and Multiply have no constructor body.
Divide_constructor_NoGuard(divisor) == NoError

\* Divide's constructor: divisor === 0 throws.
Divide_constructor(divisor) ==
    IF IsFinite(divisor) /\ divisor.v = 0 THEN DivisionByZero ELSE NoError

\* new Add(value) ... new Divide(divisor): the error thrown, if any.
Command_constructor(op, value) ==
    IF op = "Divide" THEN Divide_constructor(value) ELSE NoError

\* CommandStack's commands: execute(state) and undo(state).
Add_execute(value, s) == NumAdd(s, value)

Add_undo(value, s) == NumSub(s, value)

Subtract_execute(value, s) == NumSub(s, value)

Subtract_undo(value, s) == NumAdd(s, value)

Multiply_execute(factor, s) == NumMul(s, factor)

Multiply_undo(factor, s) == NumDiv(s, factor)

Divide_execute(divisor, s) == NumDiv(s, divisor)

Divide_undo(divisor, s) == NumMul(s, divisor)

\* command.execute(this.state)
Command_execute(command, s) ==
    CASE command.op = "Add"      -> Add_execute(command.value, s)
      [] command.op = "Subtract" -> Subtract_execute(command.value, s)
      [] command.op = "Multiply" -> Multiply_execute(command.value, s)
      [] command.op = "Divide"   -> Divide_execute(command.value, s)

\* lastCommand.undo(this.state)
Command_undo(command, s) ==
    CASE command.op = "Add"      -> Add_undo(command.value, s)
      [] command.op = "Subtract" -> Subtract_undo(command.value, s)
      [] command.op = "Multiply" -> Multiply_undo(command.value, s)
      [] command.op = "Divide"   -> Divide_undo(command.value, s)

\* Calculator's commands: execute() and undo() read the state of the
\* calculator they were constructed with, s = this.calculator.getState().
CalcAdd_execute(value, s) == NumAdd(s, value)

CalcAdd_undo_Adds(value, s) == NumAdd(s, value)

CalcAdd_undo(value, s) == NumSub(s, value)

CalcSubtract_execute(value, s) == NumSub(s, value)

CalcSubtract_undo(value, s) == NumAdd(s, value)

CalcMultiply_execute(factor, s) == NumMul(s, factor)

CalcMultiply_undo(factor, s) == NumDiv(s, factor)

CalcDivide_execute(divisor, s) == NumDiv(s, divisor)

CalcDivide_undo(divisor, s) == NumMul(s, divisor)

\* command.execute()
CalcCommand_execute(command, s) ==
    CASE command.op = "Add"      -> CalcAdd_execute(command.value, s)
      [] command.op = "Subtract" -> CalcSubtract_execute(command.value, s)
      [] command.op = "Multiply" -> CalcMultiply_execute(command.value, s)
      [] command.op = "Divide"   -> CalcDivide_execute(command.value, s)

\* lastCommand.undo()
CalcCommand_undo(command, s) ==
    CASE command.op = "Add"      -> CalcAdd_undo(command.value, s)
      [] command.op = "Subtract" -> CalcSubtract_undo(command.value, s)
      [] command.op = "Multiply" -> CalcMultiply_undo(command.value, s)
      [] command.op = "Divide"   -> CalcDivide_undo(command.value, s)

\* Array.prototype.pop: the last element, and the array without it.
Pop(seq) == [popped |-> seq[Len(seq)], rest |-> SubSeq(seq, 1, Len(seq) - 1)]

\* CommandStack.executeCommand
CommandStack_executeCommand(s, cs, command) ==
    [state |-> Command_execute(command, s), Commands |-> Append(cs, command)]

\* CommandStack.undoCommand
CommandStack_undoCommand(s, cs) ==
    IF cs = <<>>
    THEN [state |-> s, Commands |-> cs]
    ELSE [state |-> Command_undo(Pop(cs).popped, s), Commands |-> Pop(cs).rest]

\* Calculator.executeCommand
Calculator_executeCommand(s, cs, command) ==
    [state |-> CalcCommand_execute(command, s), Commands |-> Append(cs, command)]

\* Calculator.undoCommand
Calculator_undoCommand(s, cs) ==
    IF cs = <<>>
    THEN [state |-> s, Commands |-> cs]
    ELSE [state |-> CalcCommand_undo(Pop(cs).popped, s), Commands |-> Pop(cs).rest]

Invoker_executeCommand(s, cs, command) ==
    IF invoker = "Calculator"
    THEN Calculator_executeCommand(s, cs, command)
    ELSE CommandStack_executeCommand(s, cs, command)

Invoker_undoCommand(s, cs) ==
    IF invoker = "Calculator"
    THEN Calculator_undoCommand(s, cs)
    ELSE CommandStack_undoCommand(s, cs)

NoCommand == [op |-> "none", value |-> Num(0)]

Invokers == {"Calculator", "CommandStack"}

\* Before the client has built its invoker.
CommandInit ==
    /\ invoker = "none"
    /\ initialState = Num(0)
    /\ state = Num(0)
    /\ Commands = <<>>
    /\ before = <<>>
    /\ plainRun = TRUE
    /\ safeRun = TRUE
    /\ cmdLast = [call |-> "none", command |-> NoCommand, error |-> NoError,
                  restores |-> Num(0)]

\* new Calculator(n) or new CommandStack(n)
NewInvoker(class, n) ==
    /\ invoker = "none"
    /\ invoker' = class
    /\ initialState' = n
    /\ state' = n
    /\ Commands' = <<>>
    /\ safeRun' = IsSafeInteger(n)
    /\ cmdLast' = [call |-> "constructor", command |-> NoCommand,
                   error |-> NoError, restores |-> n]
    /\ UNCHANGED <<before, plainRun>>
    /\ UNCHANGED notCommandVars

\* invoker.executeCommand(new Op(value)) where the constructor throws: the
\* call is never made.
ConstructThrows(op, value) ==
    /\ invoker # "none"
    /\ Command_constructor(op, value) # NoError
    /\ cmdLast' = [call |-> "new", command |-> [op |-> op, value |-> value],
                   error |-> Command_constructor(op, value), restores |-> state]
    /\ UNCHANGED <<invoker, state, Commands, initialState, before, plainRun, safeRun>>
    /\ UNCHANGED notCommandVars

\* invoker.executeCommand(new Op(value))
ExecuteCommand(op, value) ==
    LET command == [op |-> op, value |-> value]
        res == Invoker_executeCommand(state, Commands, command)
    IN  /\ invoker # "none"
        /\ Command_constructor(op, value) = NoError
        /\ Len(Commands) < MaxCommands
        /\ Followed(res.state)
        /\ state' = res.state
        /\ Commands' = res.Commands
        /\ before' = Append(before, state)
        /\ plainRun' = (plainRun /\ op \in {"Add", "Subtract"})
        /\ safeRun' = (safeRun /\ IsSafeInteger(value) /\ IsSafeInteger(res.state))
        /\ cmdLast' = [call |-> "executeCommand", command |-> command,
                       error |-> NoError, restores |-> state]
        /\ UNCHANGED <<invoker, initialState>>
        /\ UNCHANGED notCommandVars

\* invoker.undoCommand()
UndoCommand ==
    LET res == Invoker_undoCommand(state, Commands)
    IN  /\ invoker # "none"
        /\ Followed(res.state)
        /\ state' = res.state
        /\ Commands' = res.Commands
        /\ before' = IF before = <<>> THEN before ELSE Pop(before).rest
        /\ safeRun' = (safeRun /\ IsSafeInteger(res.state))
        /\ cmdLast' = [call |-> IF before = <<>> THEN "undoNothing" ELSE "undoCommand",
                       command |-> NoCommand, error |-> NoError,
                       restores |-> IF before = <<>> THEN state ELSE Pop(before).popped]
        /\ UNCHANGED <<invoker, initialState, plainRun>>
        /\ UNCHANGED notCommandVars

CommandNext ==
    \/ \E class \in Invokers, n \in InitialStates : NewInvoker(class, n)
    \/ \E op \in CommandOps, value \in CommandValues :
          \/ ConstructThrows(op, value)
          \/ ExecuteCommand(op, value)
    \/ UndoCommand

(***************************************************************************)
(* behavioralPatterns/mementoPattern.ts: the editor and its mementos       *)
(* (TextEditor, ConcreteEditorMemento).  A string is the sequence of its   *)
(* characters; a memento is an object with one field, content.             *)
(***************************************************************************)

\* The longest editor content the model follows.
MaxContent == 3

\* How many mementos the client keeps.
MaxHeld == 2

\* The texts the client types.
Texts == { <<"a">>, <<"b">> }

\* new ConcreteEditorMemento(content)
ConcreteEditorMemento_constructor(c) == [content |-> c]

\* ConcreteEditorMemento.getContent
ConcreteEditorMemento_getContent(memento) == memento.content

\* TextEditor.type: this.content += text
TextEditor_type(c, text) == c \o text

TextEditor_save_Empty(c) == ConcreteEditorMemento_constructor(<<>>)

\* TextEditor.save: a new memento of the current content
TextEditor_save(c) == ConcreteEditorMemento_constructor(c)

\* TextEditor.restore: this.content = editorMemento.getContent()
TextEditor_restore(c, memento) == ConcreteEditorMemento_getContent(memento)

\* new TextEditor("")
MementoInit ==
    /\ content = <<>>
    /\ held = <<>>
    /\ heldFrom = <<>>
    /\ memLast = [call |-> "none", memento |-> 0, was |-> <<>>]

\* textEditor.type(text)
Type(text) ==
    /\ Len(content) + Len(text) <= MaxContent
    /\ content' = TextEditor_type(content, text)
    /\ memLast' = [call |-> "type", memento |-> 0, was |-> content]
    /\ UNCHANGED <<held, heldFrom>>
    /\ UNCHANGED notMementoVars

\* const m = textEditor.save()
Save ==
    /\ Len(held) < MaxHeld
    /\ held' = Append(held, TextEditor_save(content))
    /\ heldFrom' = Append(heldFrom, content)
    /\ memLast' = [call |-> "save", memento |-> Len(held) + 1, was |-> content]
    /\ UNCHANGED content
    /\ UNCHANGED notMementoVars

\* textEditor.restore(m), m one of the mementos held
Restore(m) ==
    /\ content' = TextEditor_restore(content, held[m])
    /\ memLast' = [call |-> "restore", memento |-> m, was |-> content]
    /\ UNCHANGED <<held, heldFrom>>
    /\ UNCHANGED notMementoVars

MementoNext ==
    \/ \E text \in Texts : Type(text)
    \/ Save
    \/ \E m \in DOMAIN held : Restore(m)

(***************************************************************************)
(* behavioralPatterns/mementoPattern.ts: the caretakers.  EditorHistory    *)
(* is handed mementos and hands them back, HistoryManager saves and        *)
(* restores its editor itself, Historyy is a bare stack.                   *)
(***************************************************************************)

\* The longest history the model follows.
MaxBackups == 3

Caretakers == {"EditorHistory", "HistoryManager", "Historyy"}

\* The value pop() returns on an empty array.
NoMemento == [content |-> <<"undefined">>]

\* Editor.type / TextEditor.type: this.content += words
Editor_type(c, words) == c \o words

\* Editor.save / TextEditor.save
Editor_save(c) == [content |-> c]

\* Editor.restore / TextEditor.restore
Editor_restore(c, memento) == memento.content

\* this.mementos.pop() / this.stack.pop()
ArrayPop(seq) ==
    IF seq = <<>>
    THEN [popped |-> NoMemento, found |-> FALSE, rest |-> seq]
    ELSE [popped |-> seq[Len(seq)], found |-> TRUE,
          rest |-> SubSeq(seq, 1, Len(seq) - 1)]

ArrayShift(seq) ==
    IF seq = <<>>
    THEN [popped |-> NoMemento, found |-> FALSE, rest |-> seq]
    ELSE [popped |-> seq[1], found |-> TRUE, rest |-> Tail(seq)]

\* EditorHistory.backup(memento)
EditorHistory_backup(ms, memento) == Append(ms, memento)

\* EditorHistory.undo: the memento popped, or undefined
EditorHistory_undo(ms) == ArrayPop(ms)

\* HistoryManager.backup: this.mementos.push(this.editor.save())
HistoryManager_backup(ms, c) == Append(ms, Editor_save(c))

HistoryManager_undo_Oldest(ms, c) ==
    IF Len(ms) = 0
    THEN [mementos |-> ms, editor |-> c]
    ELSE [mementos |-> ArrayShift(ms).rest,
          editor |-> Editor_restore(c, ArrayShift(ms).popped)]

\* HistoryManager.undo: nothing on an empty history, else pop and restore
HistoryManager_undo(ms, c) ==
    IF Len(ms) = 0
    THEN [mementos |-> ms, editor |-> c]
    ELSE IF ArrayPop(ms).found
         THEN [mementos |-> ArrayPop(ms).rest,
               editor |-> Editor_restore(c, ArrayPop(ms).popped)]
         ELSE [mementos |-> ArrayPop(ms).rest, editor |-> c]

\* Historyy.push(memento)
Historyy_push(ms, memento) == Append(ms, memento)

\* Historyy.pop
Historyy_pop(ms) == ArrayPop(ms)

\* The caretaker's backup as the client calls it:
\* history.backup(textEditor.save()), historyManager.backup(),
\* historyy.push(editor.save()).
Caretaker_backup(ms, c) ==
    CASE caretaker = "EditorHistory"  -> EditorHistory_backup(ms, Editor_save(c))
      [] caretaker = "HistoryManager" -> HistoryManager_backup(ms, c)
      [] caretaker = "Historyy"       -> Historyy_push(ms, Editor_save(c))

\* The caretaker's undo as the client calls it:
\*   const previousState = history.undo();
\*   if (previousState) textEditor.restore(previousState);
\*   historyManager.undo();
\*   editor.restore(historyy.pop()!);    reading .content of undefined throws
Caretaker_undo(ms, c) ==
    CASE caretaker = "EditorHistory" ->
             IF EditorHistory_undo(ms).found
             THEN [mementos |-> EditorHistory_undo(ms).rest,
                   editor |-> Editor_restore(c, EditorHistory_undo(ms).popped),
                   error |-> ""]
             ELSE [mementos |-> EditorHistory_undo(ms).rest, editor |-> c,
                   error |-> ""]
      [] caretaker = "HistoryManager" ->
             [mementos |-> HistoryManager_undo(ms, c).mementos,
              editor |-> HistoryManager_undo(ms, c).editor,
              error |-> ""]
      [] caretaker = "Historyy" ->
             IF Historyy_pop(ms).found
             THEN [mementos |-> Historyy_pop(ms).rest,
                   editor |-> Editor_restore(c, Historyy_pop(ms).popped),
                   error |-> ""]
             ELSE [mementos |-> Historyy_pop(ms).rest, editor |-> c,
                   error |-> "TypeError"]

\* A new editor, empty, before the client has built its caretaker.
HistoryInit ==
    /\ caretaker = "none"
    /\ editor = <<>>
    /\ mementos = <<>>
    /\ captured = <<>>
    /\ histLast = [call |-> "none", expected |-> <<>>, error |-> ""]

\* new EditorHistory(), new HistoryManager(editor) or new Historyy()
NewCaretaker(class) ==
    /\ caretaker = "none"
    /\ caretaker' = class
    /\ mementos' = <<>>
    /\ histLast' = [call |-> "constructor", expected |-> <<>>, error |-> ""]
    /\ UNCHANGED <<editor, captured>>
    /\ UNCHANGED notHistoryVars

\* editor.type(words)
HistoryType(words) ==
    /\ Len(editor) + Len(words) <= MaxContent
    /\ editor' = Editor_type(editor, words)
    /\ histLast' = [call |-> "type", expected |-> <<>>, error |-> ""]
    /\ UNCHANGED <<caretaker, mementos, captured>>
    /\ UNCHANGED notHistoryVars

\* backup
Backup ==
    /\ caretaker # "none"
    /\ Len(mementos) < MaxBackups
    /\ mementos' = Caretaker_backup(mementos, editor)
    /\ captured' = Append(captured, editor)
    /\ histLast' = [call |-> "backup", expected |-> <<>>, error |-> ""]
    /\ UNCHANGED <<caretaker, editor>>
    /\ UNCHANGED notHistoryVars

\* undo
Undo ==
    LET res == Caretaker_undo(mementos, editor)
    IN  /\ caretaker # "none"
        /\ mementos' = res.mementos
        /\ editor' = res.editor
        /\ captured' = IF captured = <<>> THEN captured
                       ELSE SubSeq(captured, 1, Len(captured) - 1)
        /\ histLast' = IF captured = <<>>
                       THEN [call |-> "undoNothing", expected |-> <<>>,
                             error |-> res.error]
                       ELSE [call |-> "undo",
                             expected |-> captured[Len(captured)],
                             error |-> res.error]
        /\ UNCHANGED caretaker
        /\ UNCHANGED notHistoryVars

HistoryNext ==
    \/ \E class \in Caretakers : NewCaretaker(class)
    \/ \E words \in Texts : HistoryType(words)
    \/ Backup
    \/ Undo

(***************************************************************************)
(* behavioralPatterns/observerPattern.ts                                   *)
(***************************************************************************)

\* How many Subscriber objects the client builds.
NumSubscribers == 3

Subscribers == 1 .. NumSubscribers

Topics == {"topic_1", "topic_2"}

Messages == {"hola", "aloh"}

\* this.topics.get(topic) is undefined: the map has no such topic.
HasTopic(ts, topic) == topic \in DOMAIN ts

\* this.topics.set(topic, set)
MapSet(ts, topic, set) ==
    [t \in DOMAIN ts \cup {topic} |-> IF t = topic THEN set ELSE ts[t]]

\* MessageBroker.subscribe
MessageBroker_subscribe(ts, topic, subscriber) ==
    LET withTopic == IF ~HasTopic(ts, topic) THEN MapSet(ts, topic, {}) ELSE ts
    IN  MapSet(withTopic, topic, withTopic[topic] \cup {subscriber})

\* MessageBroker.unsubscribe
MessageBroker_unsubscribe_ClearsTopic(ts, topic, subscriber) ==
    IF ~HasTopic(ts, topic)
    THEN ts
    ELSE MapSet(ts, topic, {})

MessageBroker_unsubscribe(ts, topic, subscriber) ==
    IF ~HasTopic(ts, topic)
    THEN ts
    ELSE MapSet(ts, topic, ts[topic] \ {subscriber})

\* Subscriber.update: the message is logged under the subscriber's name.
Subscriber_update(log, message) == Append(log, message)

MessageBroker_publish_AllTopics(ts, topic, message) ==
    [s \in Subscribers |->
        IF \E t \in DOMAIN ts : s \in ts[t]
        THEN Subscriber_update(<<>>, message)
        ELSE <<>>]

\* MessageBroker.publish: update(message) on every member of the topic's
\* set, if the map has the topic.  The result is the calls made, by
\* subscriber.
MessageBroker_publish(ts, topic, message) ==
    [s \in Subscribers |->
        IF HasTopic(ts, topic) /\ s \in ts[topic]
        THEN Subscriber_update(<<>>, message)
        ELSE <<>>]

NoCalls == [s \in Subscribers |-> <<>>]

\* new MessageBroker()
BrokerInit ==
    /\ topics = <<>>
    /\ delivered = NoCalls
    /\ subscribed = {}
    /\ brokerLast = [call |-> "none", topic |-> "", subscriber |-> 0,
                     message |-> ""]
    /\ unsubscribedFrom = {}

\* messageBroker.subscribe(topic, subscriber)
Subscribe(topic, subscriber) ==
    /\ topics' = MessageBroker_subscribe(topics, topic, subscriber)
    /\ delivered' = NoCalls
    /\ subscribed' = subscribed \cup {<<topic, subscriber>>}
    /\ brokerLast' = [call |-> "subscribe", topic |-> topic,
                      subscriber |-> subscriber, message |-> ""]
    /\ unsubscribedFrom' = unsubscribedFrom \ {<<topic, subscriber>>}
    /\ UNCHANGED notBrokerVars

\* messageBroker.unsubscribe(topic, subscriber)
Unsubscribe(topic, subscriber) ==
    /\ topics' = MessageBroker_unsubscribe(topics, topic, subscriber)
    /\ delivered' = NoCalls
    /\ subscribed' = subscribed \ {<<topic, subscriber>>}
    /\ brokerLast' = [call |-> "unsubscribe", topic |-> topic,
                      subscriber |-> subscriber, message |-> ""]
    /\ unsubscribedFrom' = unsubscribedFrom \cup {<<topic, subscriber>>}
    /\ UNCHANGED notBrokerVars

\* messageBroker.publish(topic, message)
Publish(topic, message) ==
    /\ delivered' = MessageBroker_publish(topics, topic, message)
    /\ brokerLast' = [call |-> "publish", topic |-> topic, subscriber |-> 0,
                      message |-> message]
    /\ UNCHANGED <<topics, subscribed, unsubscribedFrom>>
    /\ UNCHANGED notBrokerVars

BrokerNext ==
    \/ \E topic \in Topics, subscriber \in Subscribers :
          \/ Subscribe(topic, subscriber)
          \/ Unsubscribe(topic, subscriber)
    \/ \E topic \in Topics, message \in Messages : Publish(topic, message)

(***************************************************************************)
(* creationalPatterns/singletonPattern.ts                                  *)
(***************************************************************************)

\* How many references the client takes with Singleton.getInstance().
NumRefs == 3

\* How many establishConnection() calls the client makes at most.
MaxConnections == 4

Refs == 1 .. NumRefs

\* The static field before the first getInstance(), and a reference the
\* client has not taken yet: undefined.
NoInstance == 0

\* new Singleton(): one more object, with connectionCount = 0.  Objects are
\* named by their position in the sequence of the objects constructed.
Singleton_constructor(counts) == Append(counts, 0)

\* A getInstance() that constructs a new object on every call.
Singleton_getInstance_New(inst, counts) ==
    [singletonInstance |-> Len(counts) + 1,
     connectionCount |-> Singleton_constructor(counts),
     result |-> Len(counts) + 1]

\* static getInstance(): constructs the instance if the static field holds
\* none, and returns what the static field holds.
Singleton_getInstance(inst, counts) ==
    IF inst = NoInstance
    THEN [singletonInstance |-> Len(counts) + 1,
          connectionCount |-> Singleton_constructor(counts),
          result |-> Len(counts) + 1]
    ELSE [singletonInstance |-> inst,
          connectionCount |-> counts,
          result |-> inst]

\* An establishConnection() that leaves the count as it is.
Singleton_establishConnection_Noop(counts, this) == counts

\* this.connectionCount++
Singleton_establishConnection(counts, this) ==
    [counts EXCEPT ![this] = @ + 1]

\* return this.connectionCount
Singleton_getConnectionCount(counts, this) == counts[this]

SingletonInit ==
    /\ singletonInstance = NoInstance
    /\ connectionCount = <<>>
    /\ refs = [r \in Refs |-> NoInstance]
    /\ established = 0
    /\ singLast = [call |-> "none"]

\* const singletonInstance_r = Singleton.getInstance()
GetInstance(r) ==
    /\ refs[r] = NoInstance
    /\ LET got == Singleton_getInstance(singletonInstance, connectionCount)
       IN  /\ singletonInstance' = got.singletonInstance
           /\ connectionCount' = got.connectionCount
           /\ refs' = [refs EXCEPT ![r] = got.result]
           /\ singLast' = [call |-> "getInstance", ref |-> r,
                           result |-> got.result]
    /\ UNCHANGED established
    /\ UNCHANGED notSingletonVars

\* singletonInstance_r.establishConnection()
EstablishConnection(r) ==
    /\ refs[r] # NoInstance
    /\ established < MaxConnections
    /\ connectionCount' =
           Singleton_establishConnection(connectionCount, refs[r])
    /\ established' = established + 1
    /\ singLast' = [call |-> "establishConnection", ref |-> r, result |-> 0]
    /\ UNCHANGED <<singletonInstance, refs>>
    /\ UNCHANGED notSingletonVars

\* console.log(singletonInstance_r.getConnectionCount())
GetConnectionCount(r) ==
    /\ refs[r] # NoInstance
    /\ singLast' = [call |-> "getConnectionCount", ref |-> r,
                    result |->
                        Singleton_getConnectionCount(connectionCount, refs[r])]
    /\ UNCHANGED <<singletonInstance, connectionCount, refs, established>>
    /\ UNCHANGED notSingletonVars

SingletonNext ==
    \/ \E r \in Refs : GetInstance(r)
    \/ \E r \in Refs : EstablishConnection(r)
    \/ \E r \in Refs : GetConnectionCount(r)

(***************************************************************************)
(* simpleFactoryPattern.ts: the three versions of the candy factory        *)
(***************************************************************************)

\* How many candies the client sells at most.
MaxSales == 3

\* The arguments the client passes: the two members of CandyType, and values
\* that the switch matches with neither case (it compares with ===).
CandyTypes == {"sweet", "spicy", "sour", "Sweet", ""}

\* What a call did: it returned a value, or it threw an Error.
Returned(value) == [thrown |-> FALSE, value |-> value, message |-> ""]
Thrown(message) == [thrown |-> TRUE, value |-> "", message |-> message]

\* new SweetCandy(), new SpicyCandy(): objects told apart by their class.
NewCandy(class) == [class |-> class]

\* SweetCandy.sellCandy, SpicyCandy.sellCandy (first and third version)
Candy_sellCandy(candy) ==
    IF candy.class = "SweetCandy" THEN "cooked and sold a sweet candy"
    ELSE "cooked and sold a spicy candy"

\* The decimal digits of a number in a template literal.
RECURSIVE NumberToString(_)
NumberToString(n) ==
    LET digit == <<"0", "1", "2", "3", "4", "5", "6", "7", "8", "9">>
    IN  IF n < 10 THEN digit[n + 1]
        ELSE NumberToString(n \div 10) \o digit[(n % 10) + 1]

\* SweetCandyFactory.size, SpicyCandyFactory.size (second version)
SweetCandyFactory_size == 10
SpicyCandyFactory_size == 20

\* SweetCandyFactory.cookCandy, SpicyCandyFactory.cookCandy
SweetCandyFactory_cookCandy ==
    "cooked and sold a sweet candy with size "
        \o NumberToString(SweetCandyFactory_size)
SpicyCandyFactory_cookCandy ==
    "cooked and sold a spicy candy with size "
        \o NumberToString(SpicyCandyFactory_size)

\* A getCandy whose default case returns a sweet candy.
candyFactory_getCandy_SweetDefault(candyType) ==
    IF candyType = "spicy" THEN Returned(NewCandy("SpicyCandy"))
    ELSE Returned(NewCandy("SweetCandy"))

\* candyFactory.getCandy, first version
candyFactory_getCandy(candyType) ==
    CASE candyType = "sweet" -> Returned(NewCandy("SweetCandy"))
      [] candyType = "spicy" -> Returned(NewCandy("SpicyCandy"))
      [] OTHER -> Thrown("Invalid candy type")

\* candyFactory.getCandy, second version: it returns what the candy's
\* factory cooked
candyFactory_getCandy_2(candyType) ==
    CASE candyType = "sweet" -> Returned(SweetCandyFactory_cookCandy)
      [] candyType = "spicy" -> Returned(SpicyCandyFactory_cookCandy)
      [] OTHER -> Thrown("Invalid candy type")

\* CandyStore.sellCandy (second version)
CandyStore_sellCandy(candyType) == candyFactory_getCandy_2(candyType)

\* candyFactory.getCandy, third version
candyFactory_getCandy_3(candyType) ==
    CASE candyType = "sweet" -> Returned(NewCandy("SweetCandy"))
      [] candyType = "spicy" -> Returned(NewCandy("SpicyCandy"))
      [] OTHER -> Thrown("Invalid candy type")

CandyInit ==
    /\ candyLast = [version |-> 0, candyType |-> "", did |-> Returned("")]
    /\ candyOut = <<>>

\* What the console holds after console.log(line) following a call: an
\* Error thrown by the call leaves the statement before it logs.
Logged(out, did, line) == IF did.thrown THEN out ELSE Append(out, line)

\* const candyStore = candyFactory.getCandy(candyType);
\* console.log(candyStore.sellCandy())
SellCandy(candyType) ==
    /\ Len(candyOut) < MaxSales
    /\ LET did == candyFactory_getCandy(candyType)
       IN  /\ candyLast' =
                  [version |-> 1, candyType |-> candyType, did |-> did]
           /\ candyOut' =
                  Logged(candyOut, did,
                         IF did.thrown THEN "" ELSE Candy_sellCandy(did.value))
    /\ UNCHANGED notCandyVars

\* const candyStore = new CandyStore();
\* console.log(candyStore.sellCandy(candyType))
SellCandy_2(candyType) ==
    /\ Len(candyOut) < MaxSales
    /\ LET did == CandyStore_sellCandy(candyType)
       IN  /\ candyLast' =
                  [version |-> 2, candyType |-> candyType, did |-> did]
           /\ candyOut' = Logged(candyOut, did, did.value)
    /\ UNCHANGED notCandyVars

\* The third version's demo: as the first.
SellCandy_3(candyType) ==
    /\ Len(candyOut) < MaxSales
    /\ LET did == candyFactory_getCandy_3(candyType)
       IN  /\ candyLast' =
                  [version |-> 3, candyType |-> candyType, did |-> did]
           /\ candyOut' =
                  Logged(candyOut, did,
                         IF did.thrown THEN "" ELSE Candy_sellCandy(did.value))
    /\ UNCHANGED notCandyVars

CandyNext ==
    \/ \E candyType \in CandyTypes : SellCandy(candyType)
    \/ \E candyType \in CandyTypes : SellCandy_2(candyType)
    \/ \E candyType \in CandyTypes : SellCandy_3(candyType)

(***************************************************************************)
(* index.ts: the demos of the entry list, each invoked as a whole.  A demo *)
(* constructs its objects in its own body; only the static field of the    *)
(* Singleton class outlives an invocation.                                 *)
(***************************************************************************)

\* How many invocations the entry list makes at most, of all demos together.
MaxInvocations == 4

\* The seconds the clock can show while the demos run.
MaxDate == 2

Dates == 1 .. MaxDate

Demos ==
    {"statePattern", "proxyPattern", "observerPattern",
     "simpleFactoryPattern", "mementoPattern", "singletonPattern"}

\* One more call on the order of the state demo: the state it leaves and
\* the lines printed so far.
ThenOrder(run, res) == [state |-> res.state, out |-> run.out \o res.out]

\* statePattern.ts, default: new Order(), then shipOrder, cancelOrder,
\* verifyPayment and shipOrder on its current state.
statePattern_default ==
    LET s0 == [state |-> Order_constructor, out |-> <<>>]
        s1 == ThenOrder(s0, Order_shipOrder(s0.state))
        s2 == ThenOrder(s1, Order_cancelOrder(s1.state))
        s3 == ThenOrder(s2, Order_verifyPayment(s2.state))
        s4 == ThenOrder(s3, Order_shipOrder(s3.state))
    IN  [start |-> <<s0.state>>, out |-> s4.out]

\* One more get on the proxy of the CDN demo: the cache it leaves and the
\* [PROXY] lines logged so far.
ThenGet(run, type, fileName, res) ==
    [cache |-> res.cache,
     out |-> Append(run.out, [type |-> type, fileName |-> fileName,
                              cacheHit |-> res.cacheHit])]

\* proxyPattern.ts, default: new ProxyServer(), then nine gets.
proxyPattern_default ==
    LET f1 == <<"file_1.html">>
        f2 == <<"file_2.html">>
        c4 == <<"file_4.css">>
        c5 == <<"file_5.css">>
        j4 == <<"file_4.js">>
        j6 == <<"file_6.js">>
        p0 == [cache |-> <<>>, out |-> <<>>]
        p1 == ThenGet(p0, "html", f1, ProxyServer_getHtml(p0.cache, f1))
        p2 == ThenGet(p1, "html", f1, ProxyServer_getHtml(p1.cache, f1))
        p3 == ThenGet(p2, "html", f2, ProxyServer_getHtml(p2.cache, f2))
        p4 == ThenGet(p3, "css", c4, ProxyServer_getCss(p3.cache, c4))
        p5 == ThenGet(p4, "js", j4, ProxyServer_getJs(p4.cache, j4))
        p6 == ThenGet(p5, "js", j4, ProxyServer_getJs(p5.cache, j4))
        p7 == ThenGet(p6, "css", c4, ProxyServer_getCss(p6.cache, c4))
        p8 == ThenGet(p7, "css", c5, ProxyServer_getCss(p7.cache, c5))
        p9 == ThenGet(p8, "js", j6, ProxyServer_getJs(p8.cache, j6))
    IN  [start |-> <<p0.cache>>, out |-> p9.out]

\* observerPattern.ts, default: a new broker and three new subscribers;
\* three subscribe calls, two publish calls, an unsubscribe and a publish.
\* What it prints is what the publish calls delivered.
observerPattern_default ==
    LET t0 == <<>>
        t1 == MessageBroker_subscribe(t0, "topic_1", 1)
        t2 == MessageBroker_subscribe(t1, "topic_2", 2)
        t3 == MessageBroker_subscribe(t2, "topic_2", 3)
        t4 == MessageBroker_unsubscribe(t3, "topic_1", 1)
    IN  [start |-> <<t0>>,
         out |-> << MessageBroker_publish(t3, "topic_1", "hola"),
                    MessageBroker_publish(t3, "topic_2", "aloh"),
                    MessageBroker_publish(t4, "topic_1", "holaaaaaaaaaa") >>]

\* simpleFactoryPattern.ts, default: getCandy("spicy") and the candy sold.
simpleFactoryPattern_default ==
    LET did == candyFactory_getCandy("spicy")
    IN  [start |-> <<>>,
         out |-> Logged(<<>>, did,
                        IF did.thrown THEN "" ELSE Candy_sellCandy(did.value))]

\* new ConcreteEditorMemento(state) of the HistoryManager version: the
\* memento also keeps the second it was made in.
DatedMemento(memento, date) == [content |-> memento.content, date |-> date]

\* this.state.substring(0, 15)
Substring15(str) ==
    IF Len(str) <= 15 THEN str ELSE SubSeq(str, 1, 15)

\* ConcreteEditorMemento.getName: `${this.date} / (${...}...)`
ConcreteEditorMemento_getName(memento) ==
    [date |-> memento.date,
     text |-> <<" / (">> \o Substring15(memento.content) \o <<"...)">>]

\* A console line that carries no date.
Line(text) == [date |-> 0, text |-> text]

\* historyManager.backup() in the second dates[i]: the mementos after it.
DatedBackup(ms, c, date) ==
    LET pushed == HistoryManager_backup(ms, c)
    IN  [pushed EXCEPT ![Len(pushed)] = DatedMemento(@, date)]

\* historyManager.undo() and the line it logs: the name of the memento it
\* restores, or that there is none.
LoggedUndo(run) ==
    LET undone == HistoryManager_undo(run.mementos, run.editor)
    IN  [mementos |-> undone.mementos,
         editor |-> undone.editor,
         out |-> run.out \o
                 (IF Len(run.mementos) = 0
                  THEN <<Line(<<"No previous states to restore.">>)>>
                  ELSE <<ConcreteEditorMemento_getName(
                             ArrayPop(run.mementos).popped)>>)]

\* console.log(`Current content after undo: "${editor.getContent()}"`)
LoggedContent(run) ==
    [mementos |-> run.mementos, editor |-> run.editor,
     out |-> Append(run.out, Line(run.editor))]

\* mementoPattern.ts, default of the HistoryManager version: a new editor
\* and history manager, three backups with text typed after each, the
\* history shown, then four undos.  dates are the seconds of the backups.
mementoPattern_default(dates) ==
    LET hello == <<"H", "e", "l", "l", "o", ",", " ">>
        world == <<"w", "o", "r", "l", "d", "!">>
        how == <<" ", "H", "o", "w", " ", "a", "r", "e", " ",
                 "y", "o", "u", "?">>
        e0 == <<>>
        m1 == DatedBackup(<<>>, e0, dates[1])
        e1 == Editor_type(e0, hello)
        m2 == DatedBackup(m1, e1, dates[2])
        e2 == Editor_type(e1, world)
        m3 == DatedBackup(m2, e2, dates[3])
        e3 == Editor_type(e2, how)
        shown == [mementos |-> m3, editor |-> e3,
                  out |-> <<Line(e3)>> \o
                          [i \in 1 .. Len(m3) |->
                              ConcreteEditorMemento_getName(m3[i])]]
        u1 == LoggedContent(LoggedUndo(shown))
        u2 == LoggedContent(LoggedUndo(u1))
        u3 == LoggedContent(LoggedUndo(u2))
        u4 == LoggedUndo(u3)
    IN  [start |-> <<e0, <<>> >>, out |-> u4.out]

\* singletonPattern.ts, default: two references from getInstance(); the
\* count logged, then twice a connection established and the count logged
\* through the first reference; a rule; the same through the second.
singletonPattern_default(inst, counts) ==
    LET g1 == Singleton_getInstance(inst, counts)
        g2 == Singleton_getInstance(g1.singletonInstance, g1.connectionCount)
        i1 == g1.result
        i2 == g2.result
        k0 == g2.connectionCount
        k1 == Singleton_establishConnection(k0, i1)
        k2 == Singleton_establishConnection(k1, i1)
        k3 == Singleton_establishConnection(k2, i2)
        k4 == Singleton_establishConnection(k3, i2)
    IN  [singletonInstance |-> g2.singletonInstance,
         connectionCount |-> k4,
         start |-> <<Singleton_getConnectionCount(k0, i1)>>,
         out |-> << Singleton_getConnectionCount(k0, i1),
                    Singleton_getConnectionCount(k1, i1),
                    Singleton_getConnectionCount(k2, i1),
                    "---------------",
                    Singleton_getConnectionCount(k2, i2),
                    Singleton_getConnectionCount(k3, i2),
                    Singleton_getConnectionCount(k4, i2) >>]

DemoInit ==
    /\ invocations = [d \in Demos |-> 0]
    /\ demoLast = [demo |-> "none", start |-> <<>>, out |-> <<>>]
    /\ firstRun = [d \in Demos |-> [start |-> <<>>, out |-> <<>>]]

\* How many invocations were made of the demos in set.
RECURSIVE Invoked(_)
Invoked(set) ==
    IF set = {} THEN 0
    ELSE LET d == CHOOSE e \in set : TRUE
         IN  invocations[d] + Invoked(set \ {d})

\* One entry of the list is invoked and runs to its end.
Invoke(d, run) ==
    /\ Invoked(Demos) < MaxInvocations
    /\ invocations' = [invocations EXCEPT ![d] = @ + 1]
    /\ demoLast' = [demo |-> d, start |-> run.start, out |-> run.out]
    /\ firstRun' = IF invocations[d] = 0
                   THEN [firstRun EXCEPT
                             ![d] = [start |-> run.start, out |-> run.out]]
                   ELSE firstRun
    /\ UNCHANGED notDemoVars

StatePatternDemo ==
    /\ Invoke("statePattern", statePattern_default)
    /\ UNCHANGED singletonVars

ProxyPatternDemo ==
    /\ Invoke("proxyPattern", proxyPattern_default)
    /\ UNCHANGED singletonVars

ObserverPatternDemo ==
    /\ Invoke("observerPattern", observerPattern_default)
    /\ UNCHANGED singletonVars

SimpleFactoryPatternDemo ==
    /\ Invoke("simpleFactoryPattern", simpleFactoryPattern_default)
    /\ UNCHANGED singletonVars

MementoPatternDemo ==
    /\ \E dates \in [1 .. 3 -> Dates] :
          /\ dates[1] <= dates[2]
          /\ dates[2] <= dates[3]
          /\ Invoke("mementoPattern", mementoPattern_default(dates))
    /\ UNCHANGED singletonVars

SingletonPatternDemo ==
    LET run == singletonPattern_default(singletonInstance, connectionCount)
    IN  /\ Invoke("singletonPattern", run)
        /\ singletonInstance' = run.singletonInstance
        /\ connectionCount' = run.connectionCount
        /\ established' = established + 4
        /\ UNCHANGED <<refs, singLast>>

DemoNext ==
    \/ StatePatternDemo
    \/ ProxyPatternDemo
    \/ ObserverPatternDemo
    \/ SimpleFactoryPatternDemo
    \/ MementoPatternDemo
    \/ SingletonPatternDemo

(***************************************************************************)
(* Specifications: one per example.                                        *)
(***************************************************************************)

Init ==
    /\ OrderInit
    /\ ProxyInit
    /\ CommandInit
    /\ MementoInit
    /\ HistoryInit
    /\ BrokerInit
    /\ SingletonInit
    /\ CandyInit
    /\ DemoInit

SpecOrder == Init /\ [][OrderNext]_vars

SpecProxy == Init /\ [][ProxyNext]_vars

SpecCommand == Init /\ [][CommandNext]_vars

SpecMemento == Init /\ [][MementoNext]_vars

SpecHistory == Init /\ [][HistoryNext]_vars

SpecBroker == Init /\ [][BrokerNext]_vars

SpecSingleton == Init /\ [][SingletonNext]_vars

SpecCandy == Init /\ [][CandyNext]_vars

SpecDemos == Init /\ [][DemoNext]_vars

(***************************************************************************)
(* The order State pattern                                                 *)
(***************************************************************************)

C2_ShippedIsTerminal ==
    [][\A o \in Orders :
          currentState[o] = "OrderShippedState"
              => /\ currentState'[o] = "OrderShippedState"
                 /\ currentState'[o] # "CancelledOrderState"]_vars

\* cancelOrder was called on a shipped order, which is still shipped.
C2_Witness ==
    /\ orderLast.op = "cancelOrder"
    /\ orderLast.before = "OrderShippedState"
    /\ currentState[orderLast.order] = "OrderShippedState"

\* C3: a new order is in PaymentPendingState; in PaymentPendingState
\* shipOrder is denied and leaves the state as it is, verifyPayment moves
\* the order to OrderPreparedState and cancelOrder to CancelledOrderState.
C3_PaymentPending ==
    /\ orderLast.op = "new"
           => currentState[orderLast.order] = "PaymentPendingState"
    /\ orderLast.before = "PaymentPendingState" =>
          /\ orderLast.op = "shipOrder" =>
                /\ currentState[orderLast.order] = "PaymentPendingState"
                /\ orderOut = <<"ACTION DENIED: Cannot ship the order. Please verify payment first.">>
          /\ orderLast.op = "verifyPayment" =>
                currentState[orderLast.order] = "OrderPreparedState"
          /\ orderLast.op = "cancelOrder" =>
                currentState[orderLast.order] = "CancelledOrderState"

\* shipOrder was called on an order whose payment was pending.
C3_Witness ==
    /\ orderLast.op = "shipOrder"
    /\ orderLast.before = "PaymentPendingState"
    /\ currentState[orderLast.order] = "PaymentPendingState"

(***************************************************************************)
(* The Proxy/CDN cache                                                     *)
(***************************************************************************)

\* What the Cdn returns for a resource type and a file name.
CdnContent(type, fileName) ==
    CASE type = "html" -> Cdn_retriveHtml(fileName)
      [] type = "css"  -> Cdn_retriveCss(fileName)
      [] type = "js"   -> Cdn_retriveJs(fileName)

\* C4: every getHtml, getCss and getJs call returns exactly the content the
\* Cdn's retriveHtml, retriveCss or retriveJs returns for that file name,
\* whether the cache or the Cdn served it.
C4_ProxyReturnsCdnContent ==
    proxyLast.type # "none"
        => proxyLast.content = CdnContent(proxyLast.type, proxyLast.fileName)

\* A call served from the cache, while the cache also holds the same file
\* name under another resource type.
C4_Witness ==
    /\ proxyLast.type = "css"
    /\ proxyLast.cacheHit
    /\ <<"html", proxyLast.fileName>> \in requested
    /\ proxyLast.content = Cdn_retriveCss(proxyLast.fileName)

\* C5: a get call is a cache hit exactly when the same get method was called
\* before with the same file name; so the Cdn serves every (resource type,
\* file name) pair at most once, and the same file name under another
\* resource type is a miss.
C5_HitIffRequestedBefore ==
    /\ proxyLast.type # "none" => (proxyLast.cacheHit <=> proxyLast.seen)
    /\ \A p \in ResourceTypes \X FileNames :
          /\ cdnCalls[p] <= 1
          /\ cdnCalls[p] = 1 <=> p \in requested

\* A hit on a pair asked for before, while the same file name under another
\* resource type was a miss that the Cdn served.
C5_Witness ==
    /\ proxyLast.type = "js"
    /\ proxyLast.cacheHit
    /\ proxyLast.seen
    /\ cdnCalls[<<"css", proxyLast.fileName>>] = 1
    /\ cdnCalls[<<"js", proxyLast.fileName>>] = 1

(***************************************************************************)
(* The Command calculators                                                 *)
(***************************************************************************)

\* After an undoCommand that undid a command the state is the state from
\* before that command, and with every command undone it is the state the
\* invoker was constructed with.
UndoRestores ==
    /\ cmdLast.call = "undoCommand" => state = cmdLast.restores
    /\ Commands = <<>> => state = initialState

\* C6 as stated: with only Add and Subtract commands executed, undo is
\* last-in-first-out and exact, whatever the numbers are.
C6_UndoExact == plainRun => UndoRestores

\* C6, amended: with only Add and Subtract commands executed, undo is
\* last-in-first-out and exact as long as the initial state, every command
\* value and every state reached are safe integers.
C6_UndoExactOnSafeIntegers == (plainRun /\ safeRun) => UndoRestores

\* Two commands were executed and the later one has been undone, all on safe
\* integers: the state is the one between the two, not the initial one.
C6_Witness ==
    /\ plainRun
    /\ safeRun
    /\ cmdLast.call = "undoCommand"
    /\ Len(Commands) = 1
    /\ state = cmdLast.restores
    /\ state # initialState

IsDivideByZero(command) ==
    /\ command.op = "Divide"
    /\ IsFinite(command.value)
    /\ command.value.v = 0

\* C7: constructing a Divide command with divisor 0 throws "Division by zero
\* is not allowed."; no such command is ever in the history, and the failed
\* construction leaves the state and the history as they were.
C7_DivideByZeroThrows ==
    /\ [](\A i \in 1 .. Len(Commands) : ~IsDivideByZero(Commands[i]))
    /\ [](IsDivideByZero(cmdLast.command)
             => cmdLast.call = "new" /\ cmdLast.error = DivisionByZero)
    /\ [][IsDivideByZero(cmdLast'.command) /\ cmdLast' # cmdLast
             => state' = state /\ Commands' = Commands]_vars

\* new Divide(0) has thrown, on an invoker with a history.
C7_Witness ==
    /\ IsDivideByZero(cmdLast.command)
    /\ cmdLast.error = DivisionByZero
    /\ Commands # <<>>

(***************************************************************************)
(* The Memento editor and its caretakers                                   *)
(***************************************************************************)

\* C8: restore(m) sets the editor content to exactly the content the editor
\* had when save() produced m, whatever was typed in between; and the
\* content of a memento never changes once it is created.
C8_RestoreExact ==
    /\ [](memLast.call = "restore" => content = heldFrom[memLast.memento])
    /\ [][\A m \in DOMAIN held : m \in DOMAIN held' /\ held'[m] = held[m]]_vars

\* A memento was saved, more was typed, and the memento was restored: the
\* editor holds what it held at the save, which is not empty.
C8_Witness ==
    /\ memLast.call = "restore"
    /\ content = heldFrom[memLast.memento]
    /\ content # <<>>
    /\ Len(memLast.was) > Len(content)

\* C9: undo on a non-empty history restores the editor to the content of the
\* most recent backup not yet undone and removes that memento: the history
\* holds exactly the backups not yet undone, oldest first.
C9_UndoIsLifo ==
    /\ histLast.call = "undo" => editor = histLast.expected
    /\ Len(mementos) = Len(captured)
    /\ \A i \in DOMAIN mementos : mementos[i].content = captured[i]

\* Two different contents were backed up, more was typed and the later
\* backup has been undone: the editor holds the later content and the
\* history the earlier one.
C9_Witness ==
    /\ caretaker = "HistoryManager"
    /\ histLast.call = "undo"
    /\ Len(mementos) = 1
    /\ editor = histLast.expected
    /\ mementos[1].content # editor

(***************************************************************************)
(* The Observer message broker                                             *)
(***************************************************************************)

\* C10: publish(topic, message) calls update(message) exactly once on every
\* subscriber subscribed to the topic and on no other subscriber; on a topic
\* without subscribers it calls nothing.
C10_PublishToSubscribersOnly ==
    brokerLast.call = "publish" =>
        \A s \in Subscribers :
            delivered[s] = IF <<brokerLast.topic, s>> \in subscribed
                           THEN <<brokerLast.message>>
                           ELSE <<>>

\* A message was published to a topic that has a subscriber, while another
\* subscriber is subscribed to another topic only, and got nothing.
C10_Witness ==
    /\ brokerLast.call = "publish"
    /\ \E s, r \in Subscribers, t \in Topics :
          /\ <<brokerLast.topic, s>> \in subscribed
          /\ delivered[s] = <<brokerLast.message>>
          /\ t # brokerLast.topic
          /\ <<t, r>> \in subscribed
          /\ <<brokerLast.topic, r>> \notin subscribed
          /\ delivered[r] = <<>>

\* Subscriber r is in the set the broker keeps for topic t.
InTopic(ts, t, r) == t \in DOMAIN ts /\ r \in ts[t]

\* C11: after unsubscribe(topic, s) subscriber s gets no message published
\* to that topic until it subscribes to it again; the unsubscribe leaves the
\* subscriptions of s to other topics and of every other subscriber as they
\* were; and on a topic the broker does not have it changes nothing.
C11_UnsubscribeStopsDelivery ==
    /\ [](brokerLast.call = "publish" =>
             \A s \in Subscribers :
                 <<brokerLast.topic, s>> \in unsubscribedFrom
                     => delivered[s] = <<>>)
    /\ [][brokerLast'.call = "unsubscribe" =>
             /\ ~InTopic(topics', brokerLast'.topic, brokerLast'.subscriber)
             /\ \A t \in Topics, r \in Subscribers :
                    <<t, r>> # <<brokerLast'.topic, brokerLast'.subscriber>>
                        => (InTopic(topics', t, r) <=> InTopic(topics, t, r))
             /\ brokerLast'.topic \notin DOMAIN topics => topics' = topics]_vars

\* A subscriber of another topic was unsubscribed from this one; a message
\* published to this topic reached another subscriber and not this one,
\* which is still subscribed to the other topic.
C11_Witness ==
    /\ brokerLast.call = "publish"
    /\ \E s, r \in Subscribers, t \in Topics :
          /\ <<brokerLast.topic, s>> \in unsubscribedFrom
          /\ delivered[s] = <<>>
          /\ t # brokerLast.topic
          /\ InTopic(topics, t, s)
          /\ delivered[r] = <<brokerLast.message>>

(***************************************************************************)
(* The Singleton                                                           *)
(***************************************************************************)

\* C12: Singleton.getInstance() returns the same single instance on every
\* call: all the references taken are the one object the static field holds.
\* So the connection count is shared: after any sequence of
\* establishConnection calls made through any references,
\* getConnectionCount() through every reference is the total number of
\* establishConnection calls made so far.
C12_SharedConnectionCount ==
    /\ \A r \in Refs :
          refs[r] # NoInstance =>
              /\ refs[r] = singletonInstance
              /\ Singleton_getConnectionCount(connectionCount, refs[r])
                     = established
    /\ Len(connectionCount) <= 1
    /\ singLast.call = "getConnectionCount" => singLast.result = established

\* Every reference is taken, at least two connections were established,
\* and the count just read through one of the references is the total.
C12_Witness ==
    /\ singLast.call = "getConnectionCount"
    /\ singLast.result = established
    /\ established >= 2
    /\ \A r \in Refs : refs[r] # NoInstance

(***************************************************************************)
(* The candy factory                                                       *)
(***************************************************************************)

\* C13: in each of its three versions candyFactory.getCandy returns a sweet
\* candy for "sweet" and a spicy candy for "spicy" (the candy object in the
\* first and third version, what was cooked of it in the second), and for
\* every other candy type throws the error "Invalid candy type" without
\* returning a product: nothing is sold then.
C13_GetCandy ==
    /\ (candyLast.version # 0 /\ candyLast.candyType = "sweet") =>
          /\ ~candyLast.did.thrown
          /\ candyLast.did.value =
                 IF candyLast.version = 2
                 THEN "cooked and sold a sweet candy with size 10"
                 ELSE [class |-> "SweetCandy"]
    /\ (candyLast.version # 0 /\ candyLast.candyType = "spicy") =>
          /\ ~candyLast.did.thrown
          /\ candyLast.did.value =
                 IF candyLast.version = 2
                 THEN "cooked and sold a spicy candy with size 20"
                 ELSE [class |-> "SpicyCandy"]
    /\ (candyLast.version # 0 /\ candyLast.candyType \notin {"sweet", "spicy"})
          => /\ candyLast.did.thrown
             /\ candyLast.did.message = "Invalid candy type"
             /\ candyLast.did.value = ""
    /\ [][candyLast'.version # 0 =>
             IF candyLast'.candyType \in {"sweet", "spicy"}
             THEN Len(candyOut') = Len(candyOut) + 1
             ELSE candyOut' = candyOut]_vars

\* A spicy candy was sold, and the call after it, with a type that is no
\* candy type, threw.
C13_Witness ==
    /\ candyLast.candyType = "sour"
    /\ candyLast.did.thrown
    /\ candyLast.did.message = "Invalid candy type"
    /\ candyOut = <<"cooked and sold a spicy candy">>

(***************************************************************************)
(* The entry list                                                          *)
(***************************************************************************)

\* What a demo printed, without the dates of its lines.
WithoutDates(out) == [i \in DOMAIN out |-> out[i].text]

\* Every invocation of a demo starts and prints as its first invocation did.
SameAsFirstRun ==
    /\ demoLast.start = firstRun[demoLast.demo].start
    /\ demoLast.out = firstRun[demoLast.demo].out

\* C14 as stated: no example keeps state across invocations: every demo,
\* invoked any number of times and in any order with the other demos,
\* starts from the same initial state and behaves the same on each
\* invocation.
C14_NoStateAcrossInvocations ==
    demoLast.demo # "none" => SameAsFirstRun

\* C14: no example other than the Singleton keeps state across invocations:
\* every other demo, invoked any number of times and in any order with the
\* other demos, starts from the same initial state and prints the same on
\* each invocation, but for the dates in the memento names of the
\* HistoryManager demo.  The Singleton's instance lives on: the n-th
\* invocation of the singleton demo starts with a connection count of
\* 4(n-1) and prints the counts 4(n-1)+0, +1, +2, the rule, +2, +3, +4.
C14_OnlySingletonKeepsState ==
    /\ demoLast.demo \in Demos \ {"singletonPattern", "mementoPattern"}
          => SameAsFirstRun
    /\ demoLast.demo = "mementoPattern" =>
          /\ demoLast.start = firstRun[demoLast.demo].start
          /\ WithoutDates(demoLast.out) =
                 WithoutDates(firstRun[demoLast.demo].out)
    /\ demoLast.demo = "singletonPattern" =>
          LET b == 4 * (invocations["singletonPattern"] - 1)
          IN  /\ demoLast.start = <<b>>
              /\ demoLast.out =
                     <<b, b + 1, b + 2, "---------------", b + 2, b + 3, b + 4>>

\* The singleton demo was invoked a second time, after another demo had
\* been invoked twice, and counted on from 4.
C14_Witness ==
    /\ demoLast.demo = "singletonPattern"
    /\ invocations["singletonPattern"] = 2
    /\ demoLast.out = <<4, 5, 6, "---------------", 6, 7, 8>>
    /\ firstRun["singletonPattern"].out = <<0, 1, 2, "---------------", 2, 3, 4>>
    /\ invocations["proxyPattern"] = 2

====
